---- MODULE Spec2Model ----
(***************************************************************************)
(* Model of the README maintenance scripts of awesome-shadcn-ui:           *)
(*   add-github-stars-column.js   (src/unnamed/part_000)                   *)
(*   split-link-column.js         (src/scripts/split-link-column.js)       *)
(*   sort-tables-by-stars.js      (src/scripts/sort-tables-by-stars.js)    *)
(*   fill-github-stars.js         (src/scripts/fill-github-stars.js)       *)
(*   fill-github-from-website.js  (src/scripts/fill-github-from-website.js)*)
(*                                                                         *)
(* A JavaScript string is a sequence of atoms.  An atom is one character,  *)
(* written as a one-character TLA+ string, except for the few fixed        *)
(* substrings "https://", "http://", "www.", "github.com" and ".git",      *)
(* which the regular expressions of the scripts only ever match as a       *)
(* whole and which are kept as one atom each.  "\n" is the line feed.      *)
(* Array indices are zero-based as in the source.                          *)
(***************************************************************************)
EXTENDS Integers, Sequences, FiniteSets, TLC

\* ------------------------------------------------------------------ bounds

\* Longest README, in lines, that Init generates.
MaxLines == 5

\* Number of times a behaviour runs the chosen script on the README, one run
\* on the output of the other, when the script is one of the three that do
\* not use the network; a behaviour runs a fill-* script once.
MaxRuns == 2

\* Longest cell text, in characters, that parseStars is applied to on its own.
MaxCell == 3

\* ---------------------------------------------------------------- strings

NL == "\n"
PIPE == "|"

Min(a, b) == IF a < b THEN a ELSE b
Max(a, b) == IF a > b THEN a ELSE b

\* a[i] || dflt for a zero-based index: an index outside the array reads
\* undefined and the empty string is falsy, so both give dflt.
AtOr(a, i, dflt) ==
  IF i >= 0 /\ i < Len(a) /\ a[i + 1] # <<>> THEN a[i + 1] ELSE dflt

\* String.prototype.split(d) for a one-atom delimiter: always at least one part.
RECURSIVE SplitFrom(_, _, _, _)
SplitFrom(s, d, i, cur) ==
  IF i > Len(s) THEN <<cur>>
  ELSE IF s[i] = d THEN <<cur>> \o SplitFrom(s, d, i + 1, <<>>)
  ELSE SplitFrom(s, d, i + 1, Append(cur, s[i]))

split(s, d) == SplitFrom(s, d, 1, <<>>)

\* Array.prototype.join(d): the empty array joins to the empty string.
RECURSIVE join(_, _)
join(parts, d) ==
  IF Len(parts) = 0 THEN <<>>
  ELSE IF Len(parts) = 1 THEN parts[1]
  ELSE parts[1] \o <<d>> \o join(Tail(parts), d)

\* White space as String.prototype.trim and the regex class \s see it.
IsSpace(c) == c \in {" ", "\t", NL}

RECURSIVE TrimLeft(_)
TrimLeft(s) == IF Len(s) > 0 /\ IsSpace(s[1]) THEN TrimLeft(Tail(s)) ELSE s

RECURSIVE TrimRight(_)
TrimRight(s) ==
  IF Len(s) > 0 /\ IsSpace(s[Len(s)]) THEN TrimRight(SubSeq(s, 1, Len(s) - 1)) ELSE s

trim(s) == TrimRight(TrimLeft(s))

UpperLetters ==
  <<"A", "B", "C", "D", "E", "F", "G", "H", "I", "J", "K", "L", "M",
    "N", "O", "P", "Q", "R", "S", "T", "U", "V", "W", "X", "Y", "Z">>
LowerLetters ==
  <<"a", "b", "c", "d", "e", "f", "g", "h", "i", "j", "k", "l", "m",
    "n", "o", "p", "q", "r", "s", "t", "u", "v", "w", "x", "y", "z">>

\* Lower case of the upper-case letters and of the upper-case spellings of
\* the multi-character atoms.
LowerMap ==
  [c \in {UpperLetters[i] : i \in 1..26} \cup {"GitHub.com", "HTTPS://"} |->
     IF c = "GitHub.com" THEN "github.com"
     ELSE IF c = "HTTPS://" THEN "https://"
     ELSE LowerLetters[CHOOSE i \in 1..26 : UpperLetters[i] = c]]

LowerAtom(c) == IF c \in DOMAIN LowerMap THEN LowerMap[c] ELSE c

\* String.prototype.toLowerCase
toLowerCase(s) == [i \in 1..Len(s) |-> LowerAtom(s[i])]

startsWith(s, c) == Len(s) > 0 /\ s[1] = c
endsWith(s, c) == Len(s) > 0 /\ s[Len(s)] = c

\* ` ${s} ` : s with one blank on each side.
Cell(s) == <<" ">> \o s \o <<" ">>

\* String.prototype.startsWith for a longer search string.
startsWithStr(s, prefix) ==
  Len(s) >= Len(prefix) /\ SubSeq(s, 1, Len(prefix)) = prefix

\* while (parts.length <= index) parts.push(filler)
RECURSIVE padTo(_, _, _)
padTo(parts, index, filler) ==
  IF Len(parts) <= index THEN padTo(Append(parts, filler), index, filler) ELSE parts

\* Array.prototype.splice(index, 0, x): a start beyond the end is clamped to
\* the length, so the element is appended.
splice(a, index, x) ==
  LET k == Min(index, Len(a))
  IN  SubSeq(a, 1, k) \o <<x>> \o SubSeq(a, k + 1, Len(a))

\* a[index] = x for an index inside the array.
SetAt(a, index, x) == [a EXCEPT ![index + 1] = x]

\* Array.prototype.findIndex: first zero-based index satisfying P, else -1.
FirstIndex(a, P(_)) ==
  IF \E i \in 1..Len(a) : P(a[i])
  THEN (CHOOSE i \in 1..Len(a) : P(a[i]) /\ \A j \in 1..(i - 1) : ~P(a[j])) - 1
  ELSE -1

\* Variant of idxOf that compares without lower-casing: headerPartsTrim.findIndex((p) => p === name)
idxOfExact(headerPartsTrim, name) ==
  LET Same(p) == p = name
  IN  FirstIndex(headerPartsTrim, Same)

\* headerPartsTrim.findIndex((p) => p.toLowerCase() === name.toLowerCase())
idxOf(headerPartsTrim, name) ==
  LET Same(p) == toLowerCase(p) = toLowerCase(name)
  IN  FirstIndex(headerPartsTrim, Same)

\* line.split('|').map((p) => p.trim())
TrimAll(parts) == [i \in 1..Len(parts) |-> trim(parts[i])]

\* Column names the scripts look for.
sGithub == <<"G", "i", "t", "h", "u", "b">>
sGitHub == <<"G", "i", "t", "H", "u", "b">>
sGitHubStars == <<"G", "i", "t", "H", "u", "b", " ", "S", "t", "a", "r", "s">>
sLink == <<"L", "i", "n", "k">>
sWebsite == <<"W", "e", "b", "s", "i", "t", "e">>

\* ------------------------------------------------ add-github-stars-column

separatorCellFrom(cell) ==
  LET trimmed == trim(cell)
      leftAlign == startsWith(trimmed, ":")
      rightAlign == endsWith(trimmed, ":")
      core == <<"-", "-", "-">>
  IN  (IF leftAlign THEN <<":">> ELSE <<>>) \o core \o (IF rightAlign THEN <<":">> ELSE <<>>)

\* One iteration of the for loop of main over `line`; st is the loop state.
AddStep(st, line) ==
  LET isTableLine == startsWith(line, PIPE)
      \* Reset when leaving a table
      s0 == IF ~isTableLine /\ st.inTable
            THEN [st EXCEPT !.inTable = FALSE, !.headerLineCount = 0,
                            !.modifyThisTable = FALSE, !.githubColIndex = -1,
                            !.starsColIndex = -1, !.insertIndex = -1]
            ELSE st
  IN
  IF ~isTableLine THEN [s0 EXCEPT !.out = Append(@, line)]
  ELSE IF ~s0.inTable THEN
    \* Header row
    LET headerPartsRaw == split(line, PIPE)
        headerPartsTrim == TrimAll(headerPartsRaw)
        g0 == idxOf(headerPartsTrim, sGithub)
        githubColIndex == IF g0 = -1 THEN idxOf(headerPartsTrim, sGitHub) ELSE g0
        starsColIndex == idxOf(headerPartsTrim, sGitHubStars)
        insertIndex == IF githubColIndex # -1 THEN githubColIndex + 1
                       ELSE Max(0, Len(headerPartsRaw) - 1)
        s1 == [s0 EXCEPT !.inTable = TRUE, !.headerLineCount = 1,
                         !.githubColIndex = githubColIndex,
                         !.starsColIndex = starsColIndex]
    IN  IF starsColIndex # -1
        THEN [s1 EXCEPT !.modifyThisTable = FALSE, !.out = Append(@, line)]
        ELSE [s1 EXCEPT !.insertIndex = insertIndex,
                        !.out = Append(@, join(splice(headerPartsRaw, insertIndex,
                                                      <<" ">> \o sGitHubStars \o <<" ">>), PIPE)),
                        !.modifyThisTable = TRUE,
                        !.tablesModified = @ + 1,
                        !.rowsTouched = @ + 1]
  ELSE
    LET s1 == [s0 EXCEPT !.headerLineCount = @ + 1] IN
    IF ~s1.modifyThisTable THEN [s1 EXCEPT !.out = Append(@, line)]
    ELSE IF s1.headerLineCount = 2 THEN
      \* Separator row (second line in table)
      LET sepParts == split(line, PIPE)
          refIndex == IF s1.githubColIndex # -1 THEN s1.githubColIndex
                      ELSE Max(0, Len(sepParts) - 2)
          sourceCell == AtOr(sepParts, refIndex, <<" ", "-", "-", "-", " ">>)
          newSepCell == <<" ">> \o separatorCellFrom(sourceCell) \o <<" ">>
      IN  [s1 EXCEPT !.out = Append(@, join(splice(sepParts, s1.insertIndex, newSepCell), PIPE)),
                     !.rowsTouched = @ + 1]
    ELSE
      \* Data rows
      LET parts == split(line, PIPE)
      IN  [s1 EXCEPT !.out = Append(@, join(splice(parts, s1.insertIndex, <<" ">>), PIPE)),
                     !.rowsTouched = @ + 1]

AddInit ==
  [inTable |-> FALSE, headerLineCount |-> 0, modifyThisTable |-> FALSE,
   githubColIndex |-> -1, starsColIndex |-> -1, insertIndex |-> -1,
   tablesModified |-> 0, rowsTouched |-> 0, out |-> <<>>]

RECURSIVE AddLoop(_, _, _)
AddLoop(lines, i, st) ==
  IF i > Len(lines) THEN st ELSE AddLoop(lines, i + 1, AddStep(st, lines[i]))

\* main of add-github-stars-column.js on the file content: the loop state
\* after the last line.
AddMain(content) == AddLoop(split(content, NL), 1, AddInit)

\* ------------------------------------------------------ split-link-column

\* /(https?:\/\/)?(www\.)?github\.com\//i.test(mdCell): both prefixes are
\* optional, so the test is for "github.com/" anywhere, in any letter case.
isGithubLink(mdCell) ==
  \E i \in 1..(Len(mdCell) - 1) :
    LowerAtom(mdCell[i]) = "github.com" /\ mdCell[i + 1] = "/"

\* One iteration of the top-level for loop over `line`.
SplitStep(st, line) ==
  LET isTableLine == startsWith(line, PIPE)
      \* Reset table state on section headers or blank lines between tables
      s0 == IF startsWithStr(line, <<"#", "#", " ">>) \/ (~isTableLine /\ st.inTable)
            THEN [st EXCEPT !.inTable = FALSE, !.headerLineCount = 0,
                            !.linkColumnIndex = -1, !.tableHasLinkColumn = FALSE]
            ELSE st
  IN
  IF ~isTableLine THEN [s0 EXCEPT !.updatedLines = Append(@, line)]
  ELSE IF ~s0.inTable THEN
    \* Header row
    LET headerPartsRaw == split(line, PIPE)
        headerPartsTrimmed == TrimAll(headerPartsRaw)
        IsLink(p) == p = sLink
        linkColumnIndex == FirstIndex(headerPartsTrimmed, IsLink)
        tableHasLinkColumn == linkColumnIndex > -1
        s1 == [s0 EXCEPT !.inTable = TRUE, !.headerLineCount = 1,
                         !.linkColumnIndex = linkColumnIndex,
                         !.tableHasLinkColumn = tableHasLinkColumn]
    IN  IF ~tableHasLinkColumn
        THEN [s1 EXCEPT !.updatedLines = Append(@, line)]
        ELSE [s1 EXCEPT !.updatedLines =
                          Append(@, join(splice(SetAt(headerPartsRaw, linkColumnIndex, Cell(sWebsite)),
                                                linkColumnIndex + 1, Cell(sGithub)), PIPE)),
                        !.changesCount = @ + 1]
  ELSE
    LET s1 == [s0 EXCEPT !.headerLineCount = @ + 1]
        k == s1.linkColumnIndex
    IN
    IF ~s1.tableHasLinkColumn THEN [s1 EXCEPT !.updatedLines = Append(@, line)]
    ELSE IF s1.headerLineCount = 2 THEN
      \* Header separator line (second line in the table)
      LET sepParts == padTo(split(line, PIPE), k + 1, <<>>)
          sourceCell == sepParts[k + 1]
          newSepCell == <<" ">> \o separatorCellFrom(sourceCell) \o <<" ">>
      IN  [s1 EXCEPT !.updatedLines = Append(@, join(splice(sepParts, k + 1, newSepCell), PIPE)),
                     !.changesCount = @ + 1]
    ELSE
      \* Data rows
      LET parts == padTo(split(line, PIPE), k + 1, <<>>)
          linkCellTrimmed == trim(parts[k + 1])
          isGh == linkCellTrimmed # <<>> /\ isGithubLink(linkCellTrimmed)
          websiteCell == IF linkCellTrimmed # <<>> /\ ~isGh
                         THEN Cell(linkCellTrimmed) ELSE <<" ">>
          githubCell == IF isGh THEN Cell(linkCellTrimmed) ELSE <<" ">>
      IN  [s1 EXCEPT !.updatedLines =
                        Append(@, join(splice(SetAt(parts, k, websiteCell), k + 1, githubCell), PIPE)),
                     !.changesCount = IF linkCellTrimmed # <<>> THEN @ + 1 ELSE @]

SplitInit ==
  [inTable |-> FALSE, headerLineCount |-> 0, linkColumnIndex |-> -1,
   tableHasLinkColumn |-> FALSE, changesCount |-> 0, updatedLines |-> <<>>]

RECURSIVE SplitLoop(_, _, _)
SplitLoop(lines, i, st) ==
  IF i > Len(lines) THEN st ELSE SplitLoop(lines, i + 1, SplitStep(st, lines[i]))

\* The top-level code of split-link-column.js on the file content: the loop
\* state after the last line.
SplitMain(content) == SplitLoop(split(content, NL), 1, SplitInit)

\* --------------------------------------------------- sort-tables-by-stars

\* One iteration of the loop of findTables; st = <<tables, inTable>> and a
\* table is its `rows`, the zero-based indices of its lines.
FindTablesStep(st, i, line) ==
  LET tables == st[1]
      inTable == st[2]
      isTableLine == startsWith(line, PIPE)
  IN  IF ~inTable /\ isTableLine THEN <<Append(tables, <<i>>), TRUE>>
      ELSE IF inTable /\ isTableLine
        THEN <<[tables EXCEPT ![Len(tables)] = Append(@, i)], TRUE>>
      ELSE <<tables, FALSE>>

RECURSIVE FindTablesLoop(_, _, _)
FindTablesLoop(lines, i, st) ==
  IF i >= Len(lines) THEN st
  ELSE FindTablesLoop(lines, i + 1, FindTablesStep(st, i, lines[i + 1]))

findTables(lines) == FindTablesLoop(lines, 0, <<<<>>, FALSE>>)[1]

Digits == <<"0", "1", "2", "3", "4", "5", "6", "7", "8", "9">>
IsDigit(c) == \E d \in 1..10 : Digits[d] = c
DigitVal(c) == (CHOOSE d \in 1..10 : Digits[d] = c) - 1
AllDigits(s) == \A i \in 1..Len(s) : IsDigit(s[i])

RECURSIVE NatVal(_)
NatVal(s) == IF Len(s) = 0 THEN 0
             ELSE 10 * NatVal(SubSeq(s, 1, Len(s) - 1)) + DigitVal(s[Len(s)])

RECURSIVE Pow10(_)
Pow10(n) == IF n <= 0 THEN 1 ELSE 10 * Pow10(n - 1)

\* First one-based position of atom c in s, or 0.
IndexOf(s, c) ==
  IF \E i \in 1..Len(s) : s[i] = c
  THEN CHOOSE i \in 1..Len(s) : s[i] = c /\ \A j \in 1..(i - 1) : s[j] # c
  ELSE 0

\* A JavaScript number is kept exactly, as the fraction m / 10^f; NaN and
\* null are [nan |-> TRUE].
NoNumber == [nan |-> TRUE, m |-> 0, f |-> 0]
Num(m, f) == [nan |-> FALSE, m |-> m, f |-> f]

\* a < b and a = b on numbers
NumLess(a, b) == a.m * Pow10(b.f) < b.m * Pow10(a.f)
NumEq(a, b) == a.m * Pow10(b.f) = b.m * Pow10(a.f)

\* digits, digits "." digits?, "." digits : the unsigned decimal literal
\* without exponent shared by parseFloat and Number.
DecimalLiteral(t) ==
  LET p == IndexOf(t, ".")
      d1 == SubSeq(t, 1, p - 1)
      d2 == SubSeq(t, p + 1, Len(t))
  IN  IF p = 0
      THEN IF Len(t) > 0 /\ AllDigits(t) THEN Num(NatVal(t), 0) ELSE NoNumber
      ELSE IF AllDigits(d1) /\ AllDigits(d2) /\ Len(d1) + Len(d2) > 0
        THEN Num(NatVal(d1 \o d2), Len(d2))
        ELSE NoNumber

\* Number(str) for decimal text: white space is trimmed, the empty string is
\* 0, then an optional sign, a decimal literal and an optional exponent;
\* anything else is NaN.  (The callers lower-case the text first, so the
\* literal "Infinity" never reaches it; radix prefixes are not modelled.)
Number(str) ==
  LET t == trim(str)
      neg == startsWith(t, "-")
      u == IF startsWith(t, "-") \/ startsWith(t, "+") THEN Tail(t) ELSE t
      pe == IF IndexOf(u, "e") # 0 THEN IndexOf(u, "e") ELSE IndexOf(u, "E")
      mant == IF pe = 0 THEN u ELSE SubSeq(u, 1, pe - 1)
      ex == IF pe = 0 THEN <<>> ELSE SubSeq(u, pe + 1, Len(u))
      exNeg == startsWith(ex, "-")
      exDigits == IF startsWith(ex, "-") \/ startsWith(ex, "+") THEN Tail(ex) ELSE ex
      exOk == pe = 0 \/ (Len(exDigits) > 0 /\ AllDigits(exDigits))
      e == IF pe = 0 THEN 0 ELSE IF exNeg THEN 0 - NatVal(exDigits) ELSE NatVal(exDigits)
      d == DecimalLiteral(mant)
      sm == IF neg THEN 0 - d.m ELSE d.m
  IN  IF t = <<>> THEN Num(0, 0)
      ELSE IF d.nan \/ ~exOk THEN NoNumber
      ELSE IF e >= 0 THEN Num(sm * Pow10(e), d.f)
      ELSE Num(sm, d.f - e)

\* Math.round(val * 1000) for val >= 0: halves round up.
RoundTimes1000(val) ==
  Num((2 * val.m * 1000 + Pow10(val.f)) \div (2 * Pow10(val.f)), 0)

\* s.replace(/,/g, '')
RECURSIVE StripCommas(_)
StripCommas(s) ==
  IF Len(s) = 0 THEN <<>>
  ELSE IF s[1] = "," THEN StripCommas(Tail(s))
  ELSE <<s[1]>> \o StripCommas(Tail(s))

\* parseStars: the number of stars of a cell, or null (NoNumber).
parseStars(cellRaw) ==
  LET s == trim(cellRaw)
      normalized == toLowerCase(StripCommas(s))
      \* normalized.match(/^([0-9]*\.?[0-9]+)\s*k$/)
      group == TrimRight(SubSeq(normalized, 1, Len(normalized) - 1))
      val == DecimalLiteral(group)
      mK == /\ endsWith(normalized, "k")
            /\ Len(group) > 0
            /\ IsDigit(group[Len(group)])
            /\ ~val.nan
      n == Number(normalized)
  IN  IF cellRaw = <<>> THEN NoNumber
      ELSE IF s = <<>> THEN NoNumber
      ELSE IF mK THEN RoundTimes1000(val)
      ELSE n

\* Variant of compareEntries that orders the numbers ascending:
\* return a.stars - b.stars
compareEntriesAscending(a, b) ==
  LET aNull == a.stars.nan
      bNull == b.stars.nan
  IN  IF aNull /\ bNull THEN (IF a.i < b.i THEN -1 ELSE IF a.i > b.i THEN 1 ELSE 0)
      ELSE IF aNull THEN 1
      ELSE IF bNull THEN -1
      ELSE IF ~NumEq(b.stars, a.stars)
        THEN (IF NumLess(a.stars, b.stars) THEN -1 ELSE 1)
      ELSE (IF a.i < b.i THEN -1 ELSE IF a.i > b.i THEN 1 ELSE 0)

\* Variant of compareEntries that breaks ties the other way round:
\* return b.i - a.i
compareEntriesTiesReversed(a, b) ==
  LET aNull == a.stars.nan
      bNull == b.stars.nan
  IN  IF aNull /\ bNull THEN (IF a.i < b.i THEN -1 ELSE IF a.i > b.i THEN 1 ELSE 0)
      ELSE IF aNull THEN 1
      ELSE IF bNull THEN -1
      ELSE IF ~NumEq(b.stars, a.stars)
        THEN (IF NumLess(b.stars, a.stars) THEN -1 ELSE 1)
      ELSE (IF b.i < a.i THEN -1 ELSE IF b.i > a.i THEN 1 ELSE 0)

\* The comparator of main's sort, as the sign of the number it returns.
\* An entry is [ri, i, stars, line].
compareEntries(a, b) ==
  LET aNull == a.stars.nan
      bNull == b.stars.nan
  IN  IF aNull /\ bNull THEN (IF a.i < b.i THEN -1 ELSE IF a.i > b.i THEN 1 ELSE 0)
      ELSE IF aNull THEN 1
      ELSE IF bNull THEN -1
      ELSE IF ~NumEq(b.stars, a.stars)
        THEN (IF NumLess(b.stars, a.stars) THEN -1 ELSE 1)
      ELSE (IF a.i < b.i THEN -1 ELSE IF a.i > b.i THEN 1 ELSE 0)

\* Array.prototype.sort with that comparator: the sort is stable, and is
\* computed here by insertion, each entry going after every entry that
\* does not compare greater.
RECURSIVE InsertEntry(_, _)
InsertEntry(sorted, e) ==
  IF Len(sorted) = 0 THEN <<e>>
  ELSE IF compareEntries(sorted[Len(sorted)], e) <= 0 THEN Append(sorted, e)
  ELSE Append(InsertEntry(SubSeq(sorted, 1, Len(sorted) - 1), e), sorted[Len(sorted)])

RECURSIVE sortEntries(_)
sortEntries(entries) ==
  IF Len(entries) = 0 THEN <<>>
  ELSE InsertEntry(sortEntries(SubSeq(entries, 1, Len(entries) - 1)), entries[Len(entries)])

\* Variant of dataRowIndexesOf that skips the header only: rows.slice(1)
dataRowIndexesFromSeparator(rows) == SubSeq(rows, 2, Len(rows))

\* const dataRowIndexes = rows.slice(2); // skip header and separator
dataRowIndexesOf(rows) == SubSeq(rows, 3, Len(rows))

\* One iteration of `for (const t of tables)`; st = [lines, tablesProcessed,
\* tablesChanged] and rows is t.rows.
SortTable(st, rows) ==
  LET lines == st.lines
      header == lines[rows[1] + 1]
      headerPartsTrim == TrimAll(split(header, PIPE))
      starsCol == idxOf(headerPartsTrim, sGitHubStars)
      dataRowIndexes == dataRowIndexesOf(rows)
      entries == [j \in 1..Len(dataRowIndexes) |->
                    [ri |-> dataRowIndexes[j], i |-> j - 1,
                     stars |-> parseStars(AtOr(split(lines[dataRowIndexes[j] + 1], PIPE),
                                               starsCol, <<>>)),
                     line |-> lines[dataRowIndexes[j] + 1]]]
  IN  IF Len(rows) < 3 THEN st
      ELSE IF starsCol = -1 THEN st
      ELSE IF Len(dataRowIndexes) = 0 THEN st
      ELSE
        LET sorted == sortEntries(entries)
            changed == \E j \in 1..Len(entries) : sorted[j].ri # entries[j].ri
        IN  IF ~changed THEN [st EXCEPT !.tablesProcessed = @ + 1]
            ELSE [st EXCEPT
                    !.tablesProcessed = @ + 1,
                    !.tablesChanged = @ + 1,
                    !.lines = [x \in 1..Len(lines) |->
                                 IF \E j \in 1..Len(dataRowIndexes) : dataRowIndexes[j] + 1 = x
                                 THEN sorted[CHOOSE j \in 1..Len(dataRowIndexes) :
                                               dataRowIndexes[j] + 1 = x].line
                                 ELSE lines[x]]]

RECURSIVE SortLoop(_, _, _)
SortLoop(tables, t, st) ==
  IF t > Len(tables) THEN st ELSE SortLoop(tables, t + 1, SortTable(st, tables[t]))

\* main of sort-tables-by-stars.js on the file content.
SortMain(content) ==
  LET lines == split(content, NL)
  IN  SortLoop(findTables(lines), 1,
               [lines |-> lines, tablesProcessed |-> 0, tablesChanged |-> 0])

\* ------------------------------------------------------ fill-github-stars

\* A string or null.
NoString == [null |-> TRUE, s |-> <<>>]
Str(s) == [null |-> FALSE, s |-> s]

\* Length of the longest prefix of s[from..] whose atoms all satisfy P.
RunLength(s, from, P(_)) ==
  IF from < 1 \/ from > Len(s) THEN 0
  ELSE (CHOOSE k \in from..(Len(s) + 1) :
          /\ \A j \in from..(k - 1) : P(s[j])
          /\ (k = Len(s) + 1 \/ ~P(s[k]))) - from

NotCloseParen(c) == c # ")"
NotSpaceNorCloseParen(c) == ~IsSpace(c) /\ c # ")"
IsScheme(c) == LowerAtom(c) \in {"http://", "https://"}

\* extractMarkdownUrl: the target of the first [Text](URL), trimmed, else
\* the first plain http(s) URL, else null.
extractMarkdownUrl(cell) ==
  LET \* /\]\(([^)]+)\)/ matches at i: "](" then one or more atoms other than
      \* ")" (as many as there are) and then ")"
      MdAt(i) == /\ i + 1 <= Len(cell)
                 /\ cell[i] = "]" /\ cell[i + 1] = "("
                 /\ RunLength(cell, i + 2, NotCloseParen) >= 1
                 /\ i + 2 + RunLength(cell, i + 2, NotCloseParen) <= Len(cell)
      \* /https?:\/\/[^\s)]+/i matches at i
      PlainAt(i) == /\ IsScheme(cell[i])
                    /\ RunLength(cell, i + 1, NotSpaceNorCloseParen) >= 1
      First(M(_)) == CHOOSE i \in 1..Len(cell) : M(i) /\ \A j \in 1..(i - 1) : ~M(j)
  IN  IF cell = <<>> THEN NoString
      ELSE IF \E i \in 1..Len(cell) : MdAt(i)
        THEN LET i == First(MdAt)
             IN  Str(trim(SubSeq(cell, i + 2, i + 1 + RunLength(cell, i + 2, NotCloseParen))))
      ELSE IF \E i \in 1..Len(cell) : PlainAt(i)
        THEN LET i == First(PlainAt)
             IN  Str(SubSeq(cell, i, i + RunLength(cell, i + 1, NotSpaceNorCloseParen)))
      ELSE NoString

\* The class [A-Za-z0-9_.-]; the multi-character atoms other than the
\* schemes are made of such characters only.
IsNameAtom(c) ==
  \/ LowerAtom(c) \in {LowerLetters[i] : i \in 1..26}
  \/ IsDigit(c)
  \/ c \in {"_", ".", "-", "github.com", "GitHub.com", "www.", ".git"}

\* repo.replace(/\.git$/i, '')
StripDotGit(repo) ==
  LET n == Len(repo)
  IN  IF n >= 1 /\ repo[n] = ".git" THEN SubSeq(repo, 1, n - 1)
      ELSE IF n >= 4 /\ toLowerCase(SubSeq(repo, n - 3, n)) = <<".", "g", "i", "t">>
        THEN SubSeq(repo, 1, n - 4)
      ELSE repo

\* Where the first path segment starts if url begins, in any letter case,
\* with http(s)://[www.]github.com/ ; 0 otherwise.
GithubPathStart(url) ==
  LET w == IF Len(url) >= 2 /\ LowerAtom(url[2]) = "www." THEN 1 ELSE 0
  IN  IF /\ Len(url) >= 3 + w
         /\ IsScheme(url[1])
         /\ LowerAtom(url[2 + w]) = "github.com"
         /\ url[3 + w] = "/"
      THEN 4 + w ELSE 0

\* Whether /^https?:\/\/(?:www\.)?github\.com\/([A-Za-z0-9_.-]+)\/([A-Za-z0-9_.-]+)(?:\/|$)/i
\* matches url: the two runs of name atoms are as long as they can be, the
\* second one reaching a "/" or the end.
MatchesGithubRepo(url) ==
  LET p == GithubPathStart(url)
      o == RunLength(url, p, IsNameAtom)
      q == p + o + 1
      r == RunLength(url, q, IsNameAtom)
  IN  /\ p # 0
      /\ o >= 1
      /\ p + o <= Len(url) /\ url[p + o] = "/"
      /\ r >= 1
      /\ (q + r > Len(url) \/ url[q + r] = "/")

\* parseGithubRepo: "owner/repo" of a github.com repository URL, or null.
parseGithubRepo(url) ==
  LET p == GithubPathStart(url.s)
      o == RunLength(url.s, p, IsNameAtom)
      q == p + o + 1
      r == RunLength(url.s, q, IsNameAtom)
      owner == SubSeq(url.s, p, p + o - 1)
      repo == StripDotGit(SubSeq(url.s, q, q + r - 1))
  IN  IF url.null \/ url.s = <<>> THEN NoString
      ELSE IF ~MatchesGithubRepo(url.s) THEN NoString
      ELSE Str(owner \o <<"/">> \o repo)

\* The `normalized` of githubApiFetchRepo: the path requested is
\* /repos/<normalized>.
normalizedRepo(repo) ==
  LET parts == split(repo, "/")
  IN  toLowerCase(parts[1]) \o <<"/">> \o toLowerCase(parts[2])

\* String(n) for an integer n >= 0.
RECURSIVE String(_)
String(n) == IF n < 10 THEN <<Digits[n + 1]>>
             ELSE String(n \div 10) \o <<Digits[(n % 10) + 1]>>

\* One iteration of `for (const t of tables)` of main; st = [lines, jobs,
\* tablesTouched] and rows is t.rows.  A job is [lineIndex, starsCol, repo].
StarsTable(st, rows) ==
  LET lines == st.lines
      headerPartsRaw == split(lines[rows[1] + 1], PIPE)
      headerPartsTrim == TrimAll(headerPartsRaw)
      g0 == idxOf(headerPartsTrim, sGithub)
      githubCol == IF g0 = -1 THEN idxOf(headerPartsTrim, sGitHub) ELSE g0
      starsCol0 == idxOf(headerPartsTrim, sGitHubStars)
      insertIndex == githubCol + 1
      starsCol == IF starsCol0 = -1 THEN insertIndex ELSE starsCol0
      \* Ensure stars column exists; if missing, insert right after Github
      sepParts == split(lines[rows[2] + 1], PIPE)
      sourceCell == AtOr(sepParts, githubCol, <<" ", "-", "-", "-", " ">>)
      newSepCell == <<" ">> \o separatorCellFrom(sourceCell) \o <<" ">>
      inserted ==
        [x \in 1..Len(lines) |->
           IF x = rows[1] + 1
             THEN join(splice(headerPartsRaw, insertIndex, Cell(sGitHubStars)), PIPE)
           ELSE IF x = rows[2] + 1
             THEN join(splice(sepParts, insertIndex, newSepCell), PIPE)
           ELSE IF \E r \in 3..Len(rows) : rows[r] + 1 = x
             THEN join(splice(split(lines[x], PIPE), insertIndex, <<" ">>), PIPE)
           ELSE lines[x]]
      lines1 == IF starsCol0 = -1 THEN inserted ELSE lines
      \* Now iterate data rows and schedule fetch jobs
      RepoOf(ri) ==
        LET parts == padTo(split(lines1[ri + 1], PIPE), Max(githubCol, starsCol), <<" ">>)
        IN  parseGithubRepo(extractMarkdownUrl(parts[githubCol + 1]))
      dataRows == SubSeq(rows, 3, Len(rows))
      wanted == SelectSeq(dataRows, LAMBDA ri : ~RepoOf(ri).null)
      newJobs == [j \in 1..Len(wanted) |->
                    [lineIndex |-> wanted[j], starsCol |-> starsCol,
                     repo |-> RepoOf(wanted[j]).s]]
  IN  IF Len(rows) < 3 THEN st
      ELSE IF githubCol = -1 THEN st
      ELSE [lines |-> lines1,
            jobs |-> st.jobs \o newJobs,
            tablesTouched |-> IF starsCol0 = -1 THEN st.tablesTouched + 1
                              ELSE st.tablesTouched]

RECURSIVE StarsLoop(_, _, _)
StarsLoop(tables, t, st) ==
  IF t > Len(tables) THEN st ELSE StarsLoop(tables, t + 1, StarsTable(st, tables[t]))

\* main of fill-github-stars.js up to the fetch loop: the structural edits
\* and the jobs.
StarsPrepare(content) ==
  LET lines == split(content, NL)
  IN  StarsLoop(findTables(lines), 1,
                [lines |-> lines, jobs |-> <<>>, tablesTouched |-> 0])

\* Variant of WriteStars that sets the cell after the stars cell.
WriteStarsNextColumn(lines, job, stars) ==
  LET parts == padTo(split(lines[job.lineIndex + 1], PIPE), job.starsCol + 1, <<" ">>)
  IN  [lines EXCEPT ![job.lineIndex + 1] =
         join(SetAt(parts, job.starsCol + 1, Cell(String(stars))), PIPE)]

\* The end of the fetch loop body: the stars cell of the job's line is set.
WriteStars(lines, job, stars) ==
  LET parts == padTo(split(lines[job.lineIndex + 1], PIPE), job.starsCol, <<" ">>)
  IN  [lines EXCEPT ![job.lineIndex + 1] =
         join(SetAt(parts, job.starsCol, Cell(String(stars))), PIPE)]

\* Star counts the GitHub API answers with.
StarCounts == {7, 1200}

\* What comes back for one request of httpsGetJson: an HTTP response (its
\* status, its Location header: none, one that parses or one that does not,
\* its x-ratelimit-remaining header and its body), or an error of the
\* request.
ApiRedirect ==
  [error |-> FALSE, status |-> 301, location |-> "ok", remaining |-> "59",
   body |-> "notjson", count |-> 0]

ApiFinals ==
  { [error |-> FALSE, status |-> 200, location |-> "", remaining |-> "59",
     body |-> "count", count |-> n] : n \in StarCounts }
  \cup
  { [error |-> FALSE, status |-> 200, location |-> "", remaining |-> "59",
     body |-> "nocount", count |-> 0],
    [error |-> FALSE, status |-> 200, location |-> "", remaining |-> "59",
     body |-> "notjson", count |-> 0],
    [error |-> FALSE, status |-> 302, location |-> "bad", remaining |-> "59",
     body |-> "notjson", count |-> 0],
    [error |-> FALSE, status |-> 403, location |-> "", remaining |-> "0",
     body |-> "notjson", count |-> 0],
    [error |-> FALSE, status |-> 404, location |-> "", remaining |-> "59",
     body |-> "notjson", count |-> 0],
    [error |-> TRUE, status |-> 0, location |-> "", remaining |-> "",
     body |-> "", count |-> 0] }

\* The redirects httpsGetJson follows by default (redirectsLeft = 5).
ApiRedirectsLeft == 5

\* The answers a call of githubApiFetchRepo may meet, request after request:
\* some redirects, then an answer that is not one.
ApiAnswers ==
  { [i \in 1..k |-> ApiRedirect] \o <<f>> :
      k \in 0..(ApiRedirectsLeft + 1), f \in ApiFinals }

\* httpsGetJson: the value its promise resolves with when the requests it
\* makes are answered by resps, one after the other.
RECURSIVE httpsGetJson(_, _)
httpsGetJson(resps, left) ==
  LET res == Head(resps) IN
  IF res.error THEN [ok |-> FALSE, error |-> "error", stars |-> NoNumber]
  ELSE IF res.status >= 300 /\ res.status < 400 /\ res.location # "" /\ left > 0
    THEN IF res.location = "bad"
         THEN [ok |-> FALSE, error |-> "redirect-parse-failed", stars |-> NoNumber]
         ELSE httpsGetJson(Tail(resps), left - 1)
  ELSE IF res.status = 403 /\ res.remaining = "0"
    THEN [ok |-> FALSE, error |-> "rate-limited", stars |-> NoNumber]
  ELSE IF res.status >= 200 /\ res.status < 300
    THEN IF res.body = "notjson"
         THEN [ok |-> FALSE, error |-> "invalid-json", stars |-> NoNumber]
         ELSE [ok |-> TRUE, error |-> "", stars |-> NoNumber,
               stargazers_count |-> IF res.body = "count" THEN Num(res.count, 0)
                                    ELSE NoNumber]
  ELSE [ok |-> FALSE, error |-> "data", stars |-> NoNumber]

\* githubApiFetchRepo: a failure of httpsGetJson as it is, else
\* stars: res.json.stargazers_count ?? null.
githubApiFetchRepo(resps) ==
  LET res == httpsGetJson(resps, ApiRedirectsLeft)
  IN  IF ~res.ok THEN res
      ELSE [ok |-> TRUE, error |-> "", stars |-> res.stargazers_count]

\* ----------------------------------------------- fill-github-from-website

\* new URL(urlStr).toString() for an http(s) URL, or null when the parser
\* throws: the host, the atoms after the scheme up to the first "/", "?" or
\* "#", must not be empty and must be made of host characters; the host is
\* lower-cased and an empty path becomes "/".
parseUrl(urlStr) ==
  LET h == RunLength(urlStr, 2, IsNameAtom)
      rest == SubSeq(urlStr, 2 + h, Len(urlStr))
      host == toLowerCase(SubSeq(urlStr, 2, 1 + h))
  IN  IF Len(urlStr) = 0 \/ ~IsScheme(urlStr[1]) THEN NoString
      ELSE IF h = 0 THEN NoString
      ELSE IF rest # <<>> /\ rest[1] \notin {"/", "?", "#"} THEN NoString
      ELSE Str(<<LowerAtom(urlStr[1])>> \o host
               \o (IF rest = <<>> \/ rest[1] # "/" THEN <<"/">> ELSE <<>>) \o rest)

\* normalizeUrlMaybe: null for null or the empty string; "https://" is put
\* in front of a string without a scheme.
normalizeUrlMaybe(urlStr) ==
  IF urlStr.null \/ urlStr.s = <<>> THEN NoString
  ELSE IF IsScheme(urlStr.s[1]) THEN parseUrl(urlStr.s)
  ELSE parseUrl(<<"https://">> \o urlStr.s)

isGithubRepoUrl(href) == MatchesGithubRepo(href)

\* /https?:\/\/(?:www\.)?github\.com\//i.test(href): a match starts at i
GithubUrlAt(s, i) ==
  LET w == IF i + 1 <= Len(s) /\ LowerAtom(s[i + 1]) = "www." THEN 1 ELSE 0
  IN  /\ i + 2 + w <= Len(s)
      /\ IsScheme(s[i])
      /\ LowerAtom(s[i + 1 + w]) = "github.com"
      /\ s[i + 2 + w] = "/"

isGithubUrl(href) == \E i \in 1..Len(href) : GithubUrlAt(href, i)

\* /href\s*=\s*Q([^Q]+)Q/gi matches html at i, for the quote Q: where the
\* attribute value starts and how long it is (0 when there is no match).
HrefValueStart(html, i) ==
  LET a == i + 1 + RunLength(html, i + 1, IsSpace)
      b == a + 1 + RunLength(html, a + 1, IsSpace)
  IN  IF LowerAtom(html[i]) = "href" /\ a <= Len(html) /\ html[a] = "="
         /\ b <= Len(html)
      THEN b + 1 ELSE 0

HrefValueLength(html, i, Q) ==
  LET v == HrefValueStart(html, i)
      NotQ(c) == c # Q
      n == RunLength(html, v, NotQ)
  IN  IF v # 0 /\ html[v - 1] = Q /\ n >= 1 /\ v + n <= Len(html) THEN n ELSE 0

\* The values the loop `while ((match = regex.exec(html)) !== null)` sees,
\* from position `from` on, for the quote Q.
RECURSIVE HrefValues(_, _, _)
HrefValues(html, from, Q) ==
  IF \E i \in from..Len(html) : HrefValueLength(html, i, Q) > 0
  THEN LET i == CHOOSE i \in from..Len(html) :
                  /\ HrefValueLength(html, i, Q) > 0
                  /\ \A j \in from..(i - 1) : HrefValueLength(html, j, Q) = 0
           v == HrefValueStart(html, i)
           n == HrefValueLength(html, i, Q)
       IN  <<SubSeq(html, v, v + n - 1)>> \o HrefValues(html, v + n + 1, Q)
  ELSE <<>>

\* /https?:\/\/(?:www\.)?github\.com\/[A-Za-z0-9_.\/-]+/gi
IsRawUrlAtom(c) == IsNameAtom(c) \/ c = "/"

RawUrlLength(html, i) ==
  LET w == IF i + 1 <= Len(html) /\ LowerAtom(html[i + 1]) = "www." THEN 1 ELSE 0
      n == RunLength(html, i + 3 + w, IsRawUrlAtom)
  IN  IF GithubUrlAt(html, i) /\ n >= 1 THEN 3 + w + n ELSE 0

RECURSIVE RawUrls(_, _)
RawUrls(html, from) ==
  IF \E i \in from..Len(html) : RawUrlLength(html, i) > 0
  THEN LET i == CHOOSE i \in from..Len(html) :
                  /\ RawUrlLength(html, i) > 0
                  /\ \A j \in from..(i - 1) : RawUrlLength(html, j) = 0
           n == RawUrlLength(html, i)
       IN  <<SubSeq(html, i, i + n - 1)>> \o RawUrls(html, i + n)
  ELSE <<>>

\* new Set() filled in the order of seq: each value once, at its first place.
RECURSIVE SetOf(_)
SetOf(seq) ==
  IF Len(seq) = 0 THEN <<>>
  ELSE LET init == SetOf(SubSeq(seq, 1, Len(seq) - 1))
           x == seq[Len(seq)]
       IN  IF \E k \in 1..Len(init) : init[k] = x THEN init ELSE Append(init, x)

\* h.startsWith('//') ? 'https:' + h : h   ("//" is one atom)
ExpandProtocolRelative(h) ==
  IF startsWith(h, "//") THEN <<"https://">> \o Tail(h) ELSE h

\* The `hrefs` set of findGithubLinkInHtml when its loops are over: the
\* GitHub-looking attribute values, then the raw URLs of the page.
collectHrefs(html) ==
  SetOf(SelectSeq(HrefValues(html, 1, "\""), isGithubUrl)
        \o SelectSeq(HrefValues(html, 1, "'"), isGithubUrl)
        \o RawUrls(html, 1))

\* (h) => isGithubRepoUrl(h.startsWith('//') ? `https:${h}` : h)
repoLooking(h) == isGithubRepoUrl(ExpandProtocolRelative(h))

\* The end of findGithubLinkInHtml: the first repo-looking link, else the
\* first link, else null.
pickHref(hrefs) ==
  IF Len(hrefs) = 0 THEN NoString
  ELSE IF \E k \in 1..Len(hrefs) : repoLooking(hrefs[k])
    THEN Str(ExpandProtocolRelative(hrefs[FirstIndex(hrefs, repoLooking) + 1]))
  ELSE Str(ExpandProtocolRelative(hrefs[1]))

\* findGithubLinkInHtml: the first repo-looking GitHub link of the page,
\* else its first GitHub link, else null.
findGithubLinkInHtml(html) ==
  IF html = <<>> THEN NoString ELSE pickHref(collectHrefs(html))

\* parseTables: the tables, each with the columns of its header line.
parseTables(lines) ==
  LET tables == findTables(lines)
      IsWebsite(p) == toLowerCase(p) = toLowerCase(sWebsite)
      IsGithub(p) == toLowerCase(p) = toLowerCase(sGithub)
  IN  [t \in 1..Len(tables) |->
         LET headerParts == TrimAll(split(lines[tables[t][1] + 1], PIPE))
         IN  [startIndex |-> tables[t][1],
              websiteCol |-> FirstIndex(headerParts, IsWebsite),
              githubCol |-> FirstIndex(headerParts, IsGithub),
              rows |-> tables[t]]]

\* One iteration of `for (const t of tables)` of main: the updates of the
\* table t are added to `updates`.  An update is [lineIdx, websiteCol,
\* githubCol, websiteUrl].
WebTable(lines, updates, t) ==
  LET UrlOf(lineIdx) ==
        LET parts == padTo(split(lines[lineIdx + 1], PIPE),
                           Max(t.websiteCol, t.githubCol), <<" ">>)
            websiteUrlRaw == extractMarkdownUrl(parts[t.websiteCol + 1])
            githubCellTrim == trim(parts[t.githubCol + 1])
        IN  IF githubCellTrim = <<>> /\ ~websiteUrlRaw.null /\ websiteUrlRaw.s # <<>>
            THEN normalizeUrlMaybe(websiteUrlRaw)
            ELSE NoString
      dataRows == SubSeq(t.rows, 3, Len(t.rows))
      wanted == SelectSeq(dataRows, LAMBDA lineIdx : ~UrlOf(lineIdx).null)
  IN  IF t.websiteCol = -1 \/ t.githubCol = -1 THEN updates
      ELSE IF Len(t.rows) < 3 THEN updates
      ELSE updates \o [j \in 1..Len(wanted) |->
                         [lineIdx |-> wanted[j], websiteCol |-> t.websiteCol,
                          githubCol |-> t.githubCol, websiteUrl |-> UrlOf(wanted[j]).s]]

RECURSIVE WebLoop(_, _, _, _)
WebLoop(lines, tables, t, updates) ==
  IF t > Len(tables) THEN updates
  ELSE WebLoop(lines, tables, t + 1, WebTable(lines, updates, tables[t]))

\* main of fill-github-from-website.js up to the fetch loop.
WebPrepare(content) ==
  LET lines == split(content, NL)
  IN  [lines |-> lines, updates |-> WebLoop(lines, parseTables(lines), 1, <<>>)]

\* The end of the fetch loop body: the Github cell becomes [Link](found).
WriteLink(lines, up, found) ==
  LET parts == padTo(split(lines[up.lineIdx + 1], PIPE), up.githubCol, <<" ">>)
  IN  [lines EXCEPT ![up.lineIdx + 1] =
         join(SetAt(parts, up.githubCol,
                    Cell(<<"[", "L", "i", "n", "k", "]", "(">> \o found \o <<")">>)), PIPE)]

\* Pages a website answers with.
pageRepo ==
  <<"<", "a", " ", "href", "=", "\"", "https://", "github.com", "/", "o", "/", "r", "\"", ">">>
pageOrg ==
  <<"<", "a", NL, "href", "=", "\"", "https://", "github.com", "/", "o", NL, "\"", ">">>
pagePipe ==
  <<"<", "a", " ", "href", "=", "\"", "https://", "github.com", "/", "o", "|", "x", "\"", ">">>
pageNone == <<"<", "a", " ", "href", "=", "\"", "https://", "e", ".", "c", "o", "m", "\"", ">">>
Pages == {pageRepo, pageOrg, pagePipe, pageNone}

\* What comes back for one request of doFetch: an HTTP response (its status,
\* its Location header: none, one that parses or one that does not, and its
\* body), or an error of the request (the timeout included).
WebResponses ==
  { [error |-> FALSE, status |-> 200, location |-> "", body |-> b] : b \in Pages }
  \cup
  { [error |-> FALSE, status |-> 301, location |-> "ok", body |-> <<>>],
    [error |-> FALSE, status |-> 302, location |-> "bad", body |-> <<>>],
    [error |-> FALSE, status |-> 304, location |-> "", body |-> <<>>],
    [error |-> FALSE, status |-> 404, location |-> "", body |-> pageNone],
    [error |-> TRUE, status |-> 0, location |-> "", body |-> <<>>] }

\* The URL a Location header that parses names.
locationUrl == <<"https://", "e", ".", "c", "o", "m", "/", "n">>

\* No response yet, no result yet.
NoResponse == [error |-> FALSE, status |-> 0, location |-> "", body |-> <<>>]
NoResult == [ok |-> FALSE, error |-> "", body |-> <<>>, visited |-> <<>>]

\* maxRedirects = 5 of fetchWithRedirects
WebMaxRedirects == 5

\* The response callback of doFetch and the error handler of its request:
\* "redirect" (doFetch is called for the Location), "throw" (new URL(loc, u)
\* throws inside the callback) or the value the promise is resolved with.
doFetch(res, left, vis) ==
  IF res.error THEN [ok |-> FALSE, error |-> "error", body |-> <<>>, visited |-> vis]
  ELSE IF res.status >= 300 /\ res.status < 400 /\ res.location # "" /\ left > 0
    THEN IF res.location = "bad"
         THEN [ok |-> FALSE, error |-> "throw", body |-> <<>>, visited |-> vis]
         ELSE [ok |-> FALSE, error |-> "redirect", body |-> <<>>, visited |-> vis]
  ELSE IF res.status >= 300 /\ res.status < 400 /\ res.location # "" /\ left <= 0
    THEN [ok |-> FALSE, error |-> "Too many redirects", body |-> <<>>, visited |-> vis]
  ELSE IF res.status < 200 \/ res.status >= 400
    THEN [ok |-> FALSE, error |-> "HTTP", body |-> <<>>, visited |-> vis]
  ELSE [ok |-> TRUE, error |-> "", body |-> res.body, visited |-> vis]

\* ------------------------------------------------------------ the READMEs

\* "|c1|c2|" : a table line with its closing delimiter.
Row(cells) == join(<<<<>>>> \o cells \o <<<<>>>>, PIPE)
\* "|c1|c2" : a table line without the closing delimiter.
OpenRow(cells) == join(<<<<>>>> \o cells, PIPE)

tText == <<"x">>
tHeading == <<"#", "#", " ", "x">>
cN == Cell(<<"N">>)
cA == Cell(<<"a">>)
cB == Cell(<<"b">>)
cBlank == <<" ">>
cSep == Cell(<<"-", "-", "-">>)
cSepCenter == Cell(<<":", "-", "-", "-", ":">>)
cSepRight == Cell(<<"-", "-", "-", ":">>)

\* Lines the README of a run of add-github-stars-column is made of.
AddPool ==
  { tText,
    Row(<<cN, Cell(sGithub)>>),
    Row(<<Cell(toLowerCase(sGitHubStars)), cN>>),
    Row(<<cN>>),
    Row(<<cSepCenter, cSepRight>>),
    OpenRow(<<cA>>),
    Row(<<cA, cB>>) }

\* Lines the README of a run of split-link-column is made of.
SplitPool ==
  { tHeading,
    Row(<<cN, Cell(sLink)>>),
    Row(<<cN, Cell(toLowerCase(sLink))>>),
    OpenRow(<<cN, Cell(sLink)>>),
    Row(<<cSep, cSepRight>>),
    Row(<<cA, cB>>),
    Row(<<cA, Cell(<<"github.com", "/", "o">>)>>),
    Row(<<cA, cBlank>>),
    OpenRow(<<cA>>) }

c150 == Cell(<<"1", "5", "0">>)
c1k5 == Cell(<<"1", ".", "5", "k">>)

\* Lines the README of a run of sort-tables-by-stars is made of.
SortPool ==
  { tText,
    Row(<<cN, Cell(sGitHubStars)>>),
    Row(<<cN>>),
    Row(<<cSep, cSep>>),
    Row(<<cA, c150>>),
    Row(<<cB, c150>>),
    Row(<<cA, c1k5>>) }

cLinkMd ==
  Cell(<<"[", "L", "]", "(", "https://", "github.com", "/", "o", "/", "r", ")">>)
cLinkBare == Cell(<<"https://", "github.com", "/", "O", "/", "R">>)
c7 == Cell(<<"7">>)

\* Lines the README of a run of fill-github-stars is made of.
StarsPool ==
  { tText,
    Row(<<Cell(sGithub), cN>>),
    Row(<<cN, Cell(sGithub)>>),
    Row(<<Cell(sGithub), Cell(sGitHubStars)>>),
    Row(<<cSepCenter, cSep>>),
    Row(<<cLinkMd, c7>>),
    Row(<<cLinkBare, cBlank>>),
    OpenRow(<<cA>>) }

cSiteMd == Cell(<<"[", "w", "]", "(", "e", ".", "c", "o", "m", ")">>)
cSiteBare == Cell(<<"https://", "e", ".", "c", "o", "m">>)
cSiteBad == Cell(<<"[", "w", "]", "(", "#", ")">>)

\* Lines the README of a run of fill-github-from-website is made of.
WebPool ==
  { tText,
    Row(<<Cell(sWebsite), Cell(sGithub)>>),
    Row(<<cSep, cSep>>),
    Row(<<cSiteMd, cBlank>>),
    Row(<<cSiteBare, cLinkMd>>),
    Row(<<cSiteBad, cBlank>>),
    OpenRow(<<cSiteBare>>) }

Scripts == {"add", "split", "sort", "stars", "web"}

Pool(s) ==
  CASE s = "add" -> AddPool
    [] s = "split" -> SplitPool
    [] s = "sort" -> SortPool
    [] s = "stars" -> StarsPool
    [] s = "web" -> WebPool

\* Every README of 1..MaxLines lines over the pool of the script.
Readmes(s) ==
  UNION { { join(d, NL) : d \in [1..n -> Pool(s)] } : n \in 1..MaxLines }

\* ------------------------------------------------------------------ state

VARIABLES
  script,          \* the script this behaviour runs, again and again
  readme,          \* content of README.md on disk
  input,           \* content of README.md when the last run started
  pc,              \* "idle" between runs
  runs,            \* number of runs started
  wrote,           \* whether the last run called writeFile
  writes,          \* calls of writeFile so far
  tablesModified,  \* add-github-stars-column: tables that got the column
  rowsTouched,     \* add-github-stars-column: lines rewritten
  changesCount,    \* split-link-column: changes counted
  tablesProcessed, \* sort-tables-by-stars: tables with a stars column
  tablesChanged,   \* sort-tables-by-stars: tables whose order changed
  lines,           \* fill-*: the lines of the README in memory
  jobs,            \* fill-github-stars: the fetch jobs
  pos,             \* fill-*: number of jobs the fetch loop is done with
  cache,           \* fill-github-stars: repo -> stars (a number or null)
  tablesTouched,   \* fill-github-stars: tables that got the column
  rowsUpdated,     \* fill-github-stars: stars cells written
  apiCalls,        \* fill-github-stars: calls of githubApiFetchRepo
  hitRateLimit,    \* fill-github-stars: the loop was left on a rate limit
  redirectsLeft,   \* redirects the request in flight may still follow
  requested,       \* the repositories asked of the GitHub API, in order
  results,         \* fill-github-stars: `stars` at the end of each iteration
  updates,         \* fill-github-from-website: the rows to look up
  applied,         \* fill-github-from-website: Github cells written
  links,           \* fill-github-from-website: `found` of each iteration, if any
  visited,         \* fetchWithRedirects: the URLs requested so far
  fetched,         \* what the promise of fetchWithRedirects resolved with
  lastResponse,    \* the response (or error) that made it resolve
  cellText,        \* parseStars on its own: the cell it is given
  parsed           \* parseStars on its own: what it returned

addVars == <<tablesModified, rowsTouched>>
splitVars == <<changesCount>>
sortVars == <<tablesProcessed, tablesChanged>>
starsVars == <<jobs, cache, tablesTouched, rowsUpdated, apiCalls, hitRateLimit, requested,
               results>>
webVars == <<updates, applied, links, visited, fetched, lastResponse>>
fillVars == <<lines, pos, redirectsLeft>>
parseVars == <<cellText, parsed>>
vars == <<script, readme, input, pc, runs, wrote, writes, addVars, splitVars, sortVars,
          starsVars, webVars, fillVars, parseVars>>

\* The state of a process that has not started: the counters and the
\* collections of the scripts.
InitRest ==
  /\ input = readme
  /\ pc = "idle"
  /\ runs = 0
  /\ wrote = FALSE
  /\ writes = 0
  /\ tablesModified = 0
  /\ rowsTouched = 0
  /\ changesCount = 0
  /\ tablesProcessed = 0
  /\ tablesChanged = 0
  /\ lines = <<>>
  /\ jobs = <<>>
  /\ pos = 0
  /\ cache = <<>>
  /\ tablesTouched = 0
  /\ rowsUpdated = 0
  /\ apiCalls = 0
  /\ hitRateLimit = FALSE
  /\ redirectsLeft = 0
  /\ requested = <<>>
  /\ results = <<>>
  /\ updates = <<>>
  /\ applied = 0
  /\ links = <<>>
  /\ visited = <<>>
  /\ fetched = NoResult
  /\ lastResponse = NoResponse
  /\ parsed = NoNumber

\* The README before the first run of the script s.
InitFor(s) ==
  /\ script = s
  /\ readme \in Readmes(s)
  /\ cellText = <<>>
  /\ InitRest

\* The texts of the cells parseStars is given on its own: every text of up
\* to MaxCell characters of ParseAlphabet, and some longer ones.
ParseAlphabet == {"1", "2", "5", ",", ".", "k", "K", " ", "a"}
CellTexts ==
  UNION { [1..n -> ParseAlphabet] : n \in 0..MaxCell }
  \cup { <<"1", ",", "2", "3", "4">>, <<"2", ".", "5", "k">>, <<"a", "b", "c">>,
          <<"3", "k">>, <<"1", "e", "3">>, <<"-", "2", "5">> }

\* parseStars is about to be called with one of these texts.
InitParse ==
  /\ script = "parse"
  /\ readme = <<>>
  /\ cellText \in CellTexts
  /\ InitRest

Init == (\E s \in Scripts : InitFor(s)) \/ InitParse

\* node scripts/add-github-stars-column.js
AddRun ==
  /\ script = "add" /\ pc = "idle" /\ runs < MaxRuns
  /\ \E r \in {AddMain(readme)} :
       /\ readme' = IF r.tablesModified = 0 THEN readme ELSE join(r.out, NL)
       /\ wrote' = (r.tablesModified # 0)
       /\ writes' = writes + (IF r.tablesModified # 0 THEN 1 ELSE 0)
       /\ tablesModified' = r.tablesModified
       /\ rowsTouched' = r.rowsTouched
  /\ input' = readme
  /\ runs' = runs + 1
  /\ UNCHANGED <<script, parseVars, pc, splitVars, sortVars, starsVars, webVars, fillVars>>

\* node scripts/split-link-column.js
SplitRun ==
  /\ script = "split" /\ pc = "idle" /\ runs < MaxRuns
  /\ \E r \in {SplitMain(readme)} :
       /\ readme' = IF r.changesCount = 0 THEN readme ELSE join(r.updatedLines, NL)
       /\ wrote' = (r.changesCount # 0)
       /\ writes' = writes + (IF r.changesCount # 0 THEN 1 ELSE 0)
       /\ changesCount' = r.changesCount
  /\ input' = readme
  /\ runs' = runs + 1
  /\ UNCHANGED <<script, parseVars, pc, addVars, sortVars, starsVars, webVars, fillVars>>

\* node scripts/sort-tables-by-stars.js
SortRun ==
  /\ script = "sort" /\ pc = "idle" /\ runs < MaxRuns
  /\ \E r \in {SortMain(readme)} :
       /\ readme' = IF r.tablesChanged > 0 THEN join(r.lines, NL) ELSE readme
       /\ wrote' = (r.tablesChanged > 0)
       /\ writes' = writes + (IF r.tablesChanged > 0 THEN 1 ELSE 0)
       /\ tablesProcessed' = r.tablesProcessed
       /\ tablesChanged' = r.tablesChanged
  /\ input' = readme
  /\ runs' = runs + 1
  /\ UNCHANGED <<script, parseVars, pc, addVars, splitVars, starsVars, webVars, fillVars>>

\* cache.get(repo): the cache is a sequence of [repo, stars] entries with
\* one entry per key; a missing key reads undefined (NoNumber, as null does:
\* the code tests `stars == null`).
cacheGet(c, repo) ==
  IF \E i \in 1..Len(c) : c[i].repo = repo
  THEN c[CHOOSE i \in 1..Len(c) : c[i].repo = repo].stars
  ELSE NoNumber

\* cache.set(repo, stars)
cacheSet(c, repo, stars) ==
  IF \E i \in 1..Len(c) : c[i].repo = repo
  THEN [i \in 1..Len(c) |-> IF c[i].repo = repo THEN [repo |-> repo, stars |-> stars] ELSE c[i]]
  ELSE Append(c, [repo |-> repo, stars |-> stars])

\* node scripts/fill-github-stars.js, up to the first await: the tables are
\* scanned, missing columns inserted and the jobs collected; without jobs
\* main writes the structural edits, if any, and returns.
StarsStart ==
  /\ script = "stars" /\ pc = "idle" /\ runs = 0
  /\ \E r \in {StarsPrepare(readme)} :
       /\ lines' = r.lines
       /\ jobs' = r.jobs
       /\ tablesTouched' = r.tablesTouched
       /\ IF Len(r.jobs) = 0
          THEN /\ pc' = "idle"
               /\ wrote' = (r.tablesTouched > 0)
               /\ writes' = writes + (IF r.tablesTouched > 0 THEN 1 ELSE 0)
               /\ readme' = IF r.tablesTouched > 0 THEN join(r.lines, NL) ELSE readme
          ELSE /\ pc' = "stars_loop"
               /\ wrote' = FALSE
               /\ writes' = writes
               /\ readme' = readme
  /\ cache' = <<>>
  /\ pos' = 0
  /\ rowsUpdated' = 0
  /\ apiCalls' = 0
  /\ hitRateLimit' = FALSE
  /\ requested' = <<>>
  /\ results' = <<>>
  /\ input' = readme
  /\ runs' = runs + 1
  /\ UNCHANGED <<script, parseVars, redirectsLeft, addVars, splitVars, sortVars, webVars>>

\* The head of one iteration of `for (const job of jobs)`: a number found
\* in the cache is written at once; otherwise githubApiFetchRepo sends its
\* request and main awaits it.
StarsJob ==
  /\ pc = "stars_loop" /\ pos < Len(jobs)
  /\ LET job == jobs[pos + 1]
         stars == cacheGet(cache, job.repo)
     IN  IF stars.nan
         THEN /\ requested' = Append(requested, normalizedRepo(job.repo))
              /\ pc' = "stars_await"
              /\ UNCHANGED <<lines, rowsUpdated, pos, results>>
         ELSE /\ lines' = WriteStars(lines, job, stars.m)
              /\ rowsUpdated' = rowsUpdated + 1
              /\ pos' = pos + 1
              /\ results' = Append(results, stars)
              /\ UNCHANGED <<requested, pc>>
  /\ UNCHANGED <<script, parseVars, readme, input, runs, wrote, writes, jobs, cache, tablesTouched,
                 apiCalls, hitRateLimit, redirectsLeft, addVars, splitVars, sortVars, webVars>>

\* Variant of onFailure without the `break`: the loop goes on to the next job.
onFailureNoBreak(res, p, hit) ==
  [hitRateLimit |-> (hit \/ res.error = "rate-limited"), pc |-> "stars_loop", pos |-> p + 1]

\* if (!res.ok) { if (res.error === 'rate-limited') { hitRateLimit = true;
\* ...; break; } ...; continue; } of the fetch loop, at position p and with
\* hitRateLimit = hit.
onFailure(res, p, hit) ==
  IF res.error = "rate-limited"
  THEN [hitRateLimit |-> TRUE, pc |-> "stars_break", pos |-> p]
  ELSE [hitRateLimit |-> hit, pc |-> "stars_loop", pos |-> p + 1]

\* The promise of githubApiFetchRepo resolves and main goes on from its
\* await to the end of the iteration.
ApiRespond ==
  /\ pc = "stars_await"
  /\ \E resps \in ApiAnswers :
       LET res == githubApiFetchRepo(resps)
           job == jobs[pos + 1]
           \* typeof res.stars === 'number' ? res.stars : null
           stars == res.stars
       IN  /\ apiCalls' = apiCalls + 1
           /\ IF ~res.ok
              THEN /\ hitRateLimit' = onFailure(res, pos, hitRateLimit).hitRateLimit
                   /\ pc' = onFailure(res, pos, hitRateLimit).pc
                   /\ pos' = onFailure(res, pos, hitRateLimit).pos
                   /\ UNCHANGED <<lines, cache, rowsUpdated>>
              ELSE /\ cache' = cacheSet(cache, job.repo, stars)
                   /\ pos' = pos + 1
                   /\ pc' = "stars_loop"
                   /\ UNCHANGED hitRateLimit
                   /\ IF stars.nan
                      THEN UNCHANGED <<lines, rowsUpdated>>
                      ELSE /\ lines' = WriteStars(lines, job, stars.m)
                           /\ rowsUpdated' = rowsUpdated + 1
           \* an iteration left by `break` has no end
           /\ results' = IF pos' = pos THEN results ELSE Append(results, stars)
  /\ UNCHANGED <<script, parseVars, readme, input, runs, wrote, writes, jobs, tablesTouched, requested,
                 redirectsLeft, addVars, splitVars, sortVars, webVars>>

\* After the loop (run to its end or left by `break`): the README is
\* written if a cell or a column was.
StarsFinish ==
  /\ \/ pc = "stars_loop" /\ pos >= Len(jobs)
     \/ pc = "stars_break"
  /\ wrote' = (rowsUpdated > 0 \/ tablesTouched > 0)
  /\ writes' = writes + (IF rowsUpdated > 0 \/ tablesTouched > 0 THEN 1 ELSE 0)
  /\ readme' = IF rowsUpdated > 0 \/ tablesTouched > 0 THEN join(lines, NL) ELSE readme
  /\ pc' = "idle"
  /\ UNCHANGED <<script, parseVars, input, runs, starsVars, fillVars, addVars, splitVars, sortVars, webVars>>

\* node scripts/fill-github-from-website.js, up to the first await: without
\* updates main returns.
WebStart ==
  /\ script = "web" /\ pc = "idle" /\ runs = 0
  /\ \E r \in {WebPrepare(readme)} :
       /\ lines' = r.lines
       /\ updates' = r.updates
       /\ pc' = IF Len(r.updates) = 0 THEN "idle" ELSE "web_loop"
  /\ applied' = 0
  /\ links' = <<>>
  /\ pos' = 0
  /\ wrote' = FALSE
  /\ writes' = writes
  /\ input' = readme
  /\ runs' = runs + 1
  /\ UNCHANGED <<script, parseVars, readme, redirectsLeft, visited, fetched, lastResponse,
                 addVars, splitVars, sortVars, starsVars>>

\* The head of one iteration of `for (const up of updates)`:
\* fetchWithRedirects(websiteUrl) sends its first request.
WebJob ==
  /\ pc = "web_loop" /\ pos < Len(updates)
  /\ redirectsLeft' = WebMaxRedirects
  /\ visited' = <<updates[pos + 1].websiteUrl>>
  /\ pc' = "web_fetch"
  /\ UNCHANGED <<script, parseVars, readme, input, runs, wrote, writes, lines, pos, updates, applied,
                 links, fetched, lastResponse, addVars, splitVars, sortVars, starsVars>>

\* A response (or a request error) arrives for the request in flight.
FetchRespond ==
  /\ pc = "web_fetch"
  /\ \E res \in WebResponses :
       LET got == doFetch(res, redirectsLeft, visited) IN
       IF got.error = "redirect"
       THEN /\ redirectsLeft' = redirectsLeft - 1
            /\ visited' = Append(visited, locationUrl)
            /\ UNCHANGED <<pc, fetched, lastResponse>>
       ELSE IF got.error = "throw"
       THEN \* an exception nobody catches: the process ends
            /\ pc' = "crashed"
            /\ lastResponse' = res
            /\ UNCHANGED <<redirectsLeft, visited, fetched>>
       ELSE /\ fetched' = got
            /\ lastResponse' = res
            /\ pc' = "web_resume"
            /\ UNCHANGED <<redirectsLeft, visited>>
  /\ UNCHANGED <<script, parseVars, readme, input, runs, wrote, writes, lines, pos, updates, applied,
                 links, addVars, splitVars, sortVars, starsVars>>

\* main goes on from its await to the end of the iteration, where `res` and
\* the closure of fetchWithRedirects go out of scope.
WebResume ==
  /\ pc = "web_resume"
  /\ \E found \in {findGithubLinkInHtml(fetched.body)} :
       IF fetched.ok /\ ~found.null
       THEN /\ lines' = WriteLink(lines, updates[pos + 1], found.s)
            /\ applied' = applied + 1
            /\ links' = Append(links, found)
       ELSE /\ links' = Append(links, NoString)
            /\ UNCHANGED <<lines, applied>>
  /\ pos' = pos + 1
  /\ pc' = "web_loop"
  /\ redirectsLeft' = 0
  /\ visited' = <<>>
  /\ fetched' = NoResult
  /\ lastResponse' = NoResponse
  /\ UNCHANGED <<script, parseVars, readme, input, runs, wrote, writes, updates,
                 addVars, splitVars, sortVars, starsVars>>

\* After the loop: the README is written if a cell was.
WebFinish ==
  /\ pc = "web_loop" /\ pos >= Len(updates)
  /\ wrote' = (applied > 0)
  /\ writes' = writes + (IF applied > 0 THEN 1 ELSE 0)
  /\ readme' = IF applied > 0 THEN join(lines, NL) ELSE readme
  /\ pc' = "idle"
  /\ UNCHANGED <<script, parseVars, input, runs, webVars, fillVars, addVars, splitVars, sortVars,
                 starsVars>>

\* parseStars(cellText) is called and returns.
ParseCell ==
  /\ script = "parse" /\ pc = "idle" /\ runs = 0
  /\ parsed' = parseStars(cellText)
  /\ runs' = runs + 1
  /\ UNCHANGED <<script, cellText, readme, input, pc, wrote, writes, addVars, splitVars,
                 sortVars, starsVars, webVars, fillVars>>

Next ==
  \/ AddRun \/ SplitRun \/ SortRun
  \/ StarsStart \/ StarsJob \/ ApiRespond \/ StarsFinish
  \/ WebStart \/ WebJob \/ FetchRespond \/ WebResume \/ WebFinish
  \/ ParseCell

Spec == Init /\ [][Next]_vars

\* The behaviours of one script each.
NextAdd == AddRun
SpecAdd == InitFor("add") /\ [][NextAdd]_vars

NextSplit == SplitRun
SpecSplit == InitFor("split") /\ [][NextSplit]_vars

NextSort == SortRun
SpecSort == InitFor("sort") /\ [][NextSort]_vars

NextStars == StarsStart \/ StarsJob \/ ApiRespond \/ StarsFinish
SpecStars == InitFor("stars") /\ [][NextStars]_vars

NextWeb == WebStart \/ WebJob \/ FetchRespond \/ WebResume \/ WebFinish
SpecWeb == InitFor("web") /\ [][NextWeb]_vars

NextParse == ParseCell
SpecParse == InitParse /\ [][NextParse]_vars

\* ------------------------------------------------------------- properties

\* The lines of a document and the cells of a line (its parts between the
\* delimiters, the first and the last included).
LinesOf(content) == split(content, NL)
CellsOf(line) == split(line, PIPE)
IsTableLine(line) == startsWith(line, PIPE)

\* A table is a maximal run of table lines: it starts at line h (its header)
\* and ends at line TableEnd; its separator is line h + 1 and its data rows
\* are the lines after it.
IsHeaderAt(ls, h) == IsTableLine(ls[h]) /\ (h = 1 \/ ~IsTableLine(ls[h - 1]))
TableEnd(ls, h) ==
  CHOOSE e \in h..Len(ls) :
    /\ \A k \in h..e : IsTableLine(ls[k])
    /\ (e = Len(ls) \/ ~IsTableLine(ls[e + 1]))
HeaderOf(ls, i) ==
  CHOOSE h \in 1..i : IsHeaderAt(ls, h) /\ \A k \in h..i : IsTableLine(ls[k])

\* Zero-based index of the first header cell named `name`, ignoring case
\* (-1 without one), and of the first one named exactly `name`.
IsNamed(cell, name) == toLowerCase(trim(cell)) = toLowerCase(name)
ColumnOf(header, name) ==
  LET Named(cell) == IsNamed(cell, name) IN FirstIndex(CellsOf(header), Named)
ExactColumnOf(header, name) ==
  LET Named(cell) == trim(cell) = name IN FirstIndex(CellsOf(header), Named)
HasStarsColumn(header) == ColumnOf(header, sGitHubStars) # -1

\* new is old with one cell more, at the zero-based index idx.
InsertedAt(old, new, idx) ==
  /\ Len(new) = Len(old) + 1
  /\ idx <= Len(old)
  /\ \A j \in 1..idx : new[j] = old[j]
  /\ \A j \in (idx + 2)..Len(new) : new[j] = old[j - 1]

\* The permutations of 1..n.
Perms(n) == { f \in [1..n -> 1..n] : \A i, j \in 1..n : f[i] = f[j] => i = j }

\* The star value of a data row, for the stars column col.
KeyOf(line, col) == parseStars(AtOr(CellsOf(line), col, <<>>))

\* C1: after a run of any of the scripts the document has as many lines as
\* before, and every line that does not start with the delimiter is where it
\* was, unchanged.
C1_LinesOutsideTablesKept ==
  (pc = "idle" /\ runs > 0) =>
    \E a \in {LinesOf(input)} : \E b \in {LinesOf(readme)} :
      /\ Len(b) = Len(a)
      /\ \A i \in 1..Len(a) : ~IsTableLine(a[i]) => b[i] = a[i]

\* C2, for the tables with a data row whose header and separator have the
\* same number of cells: when add-github-stars-column gives a table the
\* GitHub Stars column, every line of the table (header, separator and data
\* rows) has one cell more than it had and the new cell is at the same index
\* in all of them; the lines of the tables that are not given the column are
\* as they were.
C2_ColumnInsertedUniformly ==
  (script = "add" /\ runs = 1) =>
    \E a \in {LinesOf(input)} : \E b \in {LinesOf(readme)} :
      /\ Len(b) = Len(a)
      /\ \A h \in 1..Len(a) :
           (/\ IsHeaderAt(a, h) /\ TableEnd(a, h) >= h + 2
            /\ Len(CellsOf(a[h + 1])) = Len(CellsOf(a[h]))) =>
             \E e \in {TableEnd(a, h)} :
               IF HasStarsColumn(a[h])
               THEN \A k \in h..e : b[k] = a[k]
               ELSE \E idx \in 0..Len(CellsOf(a[h])) :
                      \A k \in h..e : InsertedAt(CellsOf(a[k]), CellsOf(b[k]), idx)

\* C3: add-github-stars-column leaves every line of a table whose header
\* names GitHub Stars (trimmed, in any letter case) as it is; when every
\* table has the column nothing is written; and a second run on the output
\* of the first one writes nothing and changes nothing.
C3_ExistingColumnUntouched ==
  (script = "add" /\ runs > 0) =>
    \E a \in {LinesOf(input)} : \E b \in {LinesOf(readme)} :
      /\ Len(b) = Len(a)
      /\ \A h \in 1..Len(a) : (IsHeaderAt(a, h) /\ HasStarsColumn(a[h])) =>
           \A k \in h..TableEnd(a, h) : b[k] = a[k]
      /\ (\A h \in 1..Len(a) : IsHeaderAt(a, h) => HasStarsColumn(a[h])) =>
           (~wrote /\ tablesModified = 0 /\ readme = input)
      /\ runs >= 2 => (~wrote /\ readme = input)

\* A second run has found nothing to do on a document that the first run
\* gave a column to, and that also had a table with the column spelt in
\* lower case from the start.
C3_Witness ==
  /\ script = "add" /\ runs = 2 /\ writes = 1 /\ ~wrote
  /\ \E i, j \in 1..Len(LinesOf(input)) :
       /\ \E c \in 1..Len(CellsOf(LinesOf(input)[i])) :
            CellsOf(LinesOf(input)[i])[c] = Cell(sGitHubStars)
       /\ \E c \in 1..Len(CellsOf(LinesOf(input)[j])) :
            CellsOf(LinesOf(input)[j])[c] = Cell(toLowerCase(sGitHubStars))

\* C4: after sort-tables-by-stars the data rows of a table with a GitHub
\* Stars column are the rows it had, in an order where no unparseable row
\* precedes a numeric one, the numeric values never increase, and rows of
\* equal value, like the unparseable rows, are in their original order.
C4_SortedByStars ==
  (script = "sort" /\ runs > 0) =>
    \E a \in {LinesOf(input)} : \E b \in {LinesOf(readme)} :
      /\ Len(b) = Len(a)
      /\ \A h \in 1..Len(a) :
           (IsHeaderAt(a, h) /\ TableEnd(a, h) >= h + 2 /\ HasStarsColumn(a[h])) =>
             \E c \in {ColumnOf(a[h], sGitHubStars)} :
             \E f \in Perms(TableEnd(a, h) - h - 1) :
               /\ \A j \in DOMAIN f : b[h + 1 + j] = a[h + 1 + f[j]]
               /\ \A j, k \in DOMAIN f : j < k =>
                    \E kj \in {KeyOf(b[h + 1 + j], c)} : \E kk \in {KeyOf(b[h + 1 + k], c)} :
                      /\ ~(kj.nan /\ ~kk.nan)
                      /\ (~kj.nan /\ ~kk.nan) => ~NumLess(kj, kk)
                      /\ (kj.nan /\ kk.nan) => f[j] < f[k]
                      /\ (~kj.nan /\ ~kk.nan /\ NumEq(kj, kk)) => f[j] < f[k]

\* The run has moved the row of 1.5k stars before two rows of 150 stars,
\* which are in the order they had.
C4_Witness ==
  /\ script = "sort" /\ runs = 1 /\ wrote
  /\ LinesOf(input) = <<Row(<<cN, Cell(sGitHubStars)>>), Row(<<cSep, cSep>>),
                        Row(<<cA, c150>>), Row(<<cB, c150>>), Row(<<cA, c1k5>>)>>
  /\ LinesOf(readme) = <<Row(<<cN, Cell(sGitHubStars)>>), Row(<<cSep, cSep>>),
                         Row(<<cA, c1k5>>), Row(<<cA, c150>>), Row(<<cB, c150>>)>>

\* C5: sort-tables-by-stars keeps the number of lines, the lines outside
\* tables, the header and the separator of every table and the places of
\* its data rows; the data rows of a table are the ones it had, each as
\* often as before; a table of fewer than 3 lines or without a GitHub Stars
\* column is left as it is.
C5_SortOnlyPermutesDataRows ==
  (script = "sort" /\ runs > 0) =>
    \E a \in {LinesOf(input)} : \E b \in {LinesOf(readme)} :
      /\ Len(b) = Len(a)
      /\ \A i \in 1..Len(a) : IsTableLine(b[i]) = IsTableLine(a[i])
      /\ \A i \in 1..Len(a) : ~IsTableLine(a[i]) => b[i] = a[i]
      /\ \A h \in 1..Len(a) : IsHeaderAt(a, h) =>
           \E e \in {TableEnd(a, h)} :
             /\ b[h] = a[h]
             /\ e > h => b[h + 1] = a[h + 1]
             /\ \E f \in Perms(e - h - 1) :
                  \A j \in DOMAIN f : b[h + 1 + j] = a[h + 1 + f[j]]
             /\ (e < h + 2 \/ ~HasStarsColumn(a[h])) => \A k \in h..e : b[k] = a[k]

\* The run has changed the order of the rows of a table that follows a line
\* of text.
C5_Witness ==
  /\ script = "sort" /\ runs = 1 /\ wrote /\ readme # input
  /\ ~IsTableLine(LinesOf(input)[1])

\* C6: a second run of sort-tables-by-stars, on the output of the first,
\* leaves the document as it is, finds no table changed and writes nothing.
C6_SortIdempotent ==
  (script = "sort" /\ runs >= 2) => (readme = input /\ tablesChanged = 0 /\ ~wrote)

\* The first run has written a new order, the second run nothing.
C6_Witness == script = "sort" /\ runs = 2 /\ writes = 1 /\ tablesProcessed > 0

\* C7: in a run of fill-github-stars no repository (its owner and name in
\* lower case, as requested of the API) is asked of the API twice.
C7_OneCallPerRepository ==
  \A i, j \in 1..Len(requested) : i # j => requested[i] # requested[j]

\* C8, once the loop is left on a rate limit: no call of the API and no
\* write of a cell follows.
C8_NothingAfterRateLimit ==
  hitRateLimit =>
    /\ hitRateLimit'
    /\ requested' = requested /\ apiCalls' = apiCalls
    /\ lines' = lines /\ rowsUpdated' = rowsUpdated

\* C8, when the run is over: the document is the lines in memory when the
\* rate limit was met, if a value or a column was written to them; all its
\* lines but those of the jobs are the lines after the structural phase.
C8_EditsPersisted ==
  (script = "stars" /\ pc = "idle" /\ hitRateLimit) =>
    /\ wrote = (rowsUpdated > 0 \/ tablesTouched > 0)
    /\ wrote => readme = join(lines, NL)
    /\ tablesTouched = StarsPrepare(input).tablesTouched
    /\ \A i \in 1..Len(lines) :
         (\A j \in 1..Len(jobs) : jobs[j].lineIndex + 1 # i) =>
           lines[i] = StarsPrepare(input).lines[i]

\* C8: in fill-github-stars, after a lookup has failed on the rate limit no
\* further call of the API is made and no further stars cell is written,
\* and the values written before and the columns inserted are in the
\* document when the run is over.
C8_RateLimitStopsLookups == [][C8_NothingAfterRateLimit]_vars /\ []C8_EditsPersisted

\* The run has inserted a column, written a value, met the rate limit with
\* a job left, and is over.
C8_Witness ==
  /\ script = "stars" /\ pc = "idle" /\ hitRateLimit /\ wrote
  /\ rowsUpdated > 0 /\ tablesTouched > 0 /\ pos + 1 < Len(jobs)

\* C9: fetchWithRedirects always resolves; it follows at most 5 redirects;
\* it resolves with ok only when the last response has a 2xx status, with a
\* failure when it has another status, and with 'Too many redirects' when
\* it is a redirect and none is left.
C9_FetchContract ==
  /\ pc # "crashed"
  /\ Len(visited) <= WebMaxRedirects + 1
  /\ pc = "web_resume" =>
       /\ fetched.ok => (~lastResponse.error /\ lastResponse.status \in 200..299)
       /\ (~lastResponse.error /\ lastResponse.status \notin 200..299) => ~fetched.ok
       /\ (/\ ~lastResponse.error /\ lastResponse.status \in 300..399
           /\ lastResponse.location # "" /\ redirectsLeft = 0) =>
            (~fetched.ok /\ fetched.error = "Too many redirects")

\* The lines of a table all have the same number of cells.
SameCellCount(ls, h, e) == \A r \in h..e : Len(CellsOf(ls[r])) = Len(CellsOf(ls[h]))

\* The line i of ls is one split-link-column counts as a change: the header
\* or the separator of a table with a Link column, or one of its data rows
\* whose Link cell is not empty.
CountedAsChange(ls, i) ==
  /\ IsTableLine(ls[i])
  /\ \E h \in {HeaderOf(ls, i)} : \E k \in {ExactColumnOf(ls[h], sLink)} :
       /\ k # -1
       /\ (i <= h + 1 \/ trim(AtOr(CellsOf(ls[i]), k, <<>>)) # <<>>)

\* The data row new is the data row old split at the zero-based index k;
\* a cell it has beyond those of old is empty.
RowSplitAt(old, new, k) ==
  /\ Len(new) >= Len(old) + 1
  /\ \A j \in 1..k : new[j] = old[j]
  /\ \A j \in (k + 2)..Len(old) : new[j + 1] = old[j]
  /\ \A j \in (Len(old) + 2)..Len(new) : j > k + 2 /\ new[j] = <<>>
  /\ \E c \in {trim(old[k + 1])} :
       IF c = <<>> THEN new[k + 1] = <<" ">> /\ new[k + 2] = <<" ">>
       ELSE IF isGithubLink(c) THEN new[k + 1] = <<" ">> /\ new[k + 2] = Cell(c)
       ELSE new[k + 1] = Cell(c) /\ new[k + 2] = <<" ">>

\* C10, for the tables whose lines all have the same number of cells: after
\* split-link-column the header of a table with a Link column at index k
\* has Website at k and a new cell Github at k + 1, the separator has a new
\* cell at k + 1, every data row has the trimmed content of its old cell k
\* at k + 1 if it is a GitHub link and at k otherwise, the other one of the
\* two cells being blank, and its other cells as they were; the rows with
\* an empty cell k are not counted as changes; and the lines of the table
\* have the same number of cells.
C10_LinkColumnSplit ==
  (script = "split" /\ runs = 1) =>
    \E a \in {LinesOf(input)} : \E b \in {LinesOf(readme)} :
      /\ changesCount = Cardinality({i \in 1..Len(a) : CountedAsChange(a, i)})
      /\ Len(b) = Len(a)
      /\ \A h \in 1..Len(a) :
           (/\ IsHeaderAt(a, h) /\ ExactColumnOf(a[h], sLink) # -1
            /\ SameCellCount(a, h, TableEnd(a, h))) =>
             \E e \in {TableEnd(a, h)} : \E k \in {ExactColumnOf(a[h], sLink)} :
               /\ CellsOf(b[h]) = splice(SetAt(CellsOf(a[h]), k, Cell(sWebsite)),
                                         k + 1, Cell(sGithub))
               /\ e > h => \A j \in 1..(k + 1) : CellsOf(b[h + 1])[j] = CellsOf(a[h + 1])[j]
               /\ \A r \in (h + 2)..e : RowSplitAt(CellsOf(a[r]), CellsOf(b[r]), k)
               /\ SameCellCount(b, h, e)

\* C11: when a run of a script is over, the document was written if and
\* only if it is not the document the run started with.
C11_WrittenIffChanged ==
  (pc = "idle" /\ runs > 0) => (wrote <=> readme # input)

\* The cell of a line in the zero-based column c, as it is written (Absent
\* when the line has no such cell) and trimmed (empty when it has none).
Absent == <<"absent">>
RawCellAt(line, c) == AtOr(CellsOf(line), c, Absent)
CellAt(line, c) == trim(AtOr(CellsOf(line), c, <<>>))

\* The repository a data row links to in the column g (NoString without
\* one), and the job scheduled for the zero-based line li (0 without one).
RepoAt(line, g) == parseGithubRepo(extractMarkdownUrl(AtOr(CellsOf(line), g, <<>>)))
JobOf(li) ==
  IF \E j \in 1..Len(jobs) : jobs[j].lineIndex = li
  THEN CHOOSE j \in 1..Len(jobs) : jobs[j].lineIndex = li
  ELSE 0

\* C12, the data row new of a table against the row old it was, s being the
\* stars column and ins telling that the run inserted it: every cell of old
\* but the stars cell is in new as it was, in its column, and the cells new
\* has beyond them, the stars cell apart, are blank.
OtherCellsKept(old, new, s, ins) ==
  /\ \A c \in 0..(Len(CellsOf(old)) - 1) :
       (ins \/ c # s) =>
         RawCellAt(new, IF ins /\ c >= s THEN c + 1 ELSE c) = RawCellAt(old, c)
  /\ \A c \in 0..(Len(CellsOf(new)) - 1) :
       (/\ c # s
        /\ ~\E d \in 0..(Len(CellsOf(old)) - 1) :
              (ins \/ d # s) /\ c = (IF ins /\ d >= s THEN d + 1 ELSE d)) =>
         CellAt(new, c) = <<>>

\* C12, while the lookups go on: the line of every job is a data row of a
\* table whose header has GitHub Stars in the column of the job, and links
\* to the repository of the job in the Github column.
C12_JobsDesignateTheirCells ==
  pc \in {"stars_loop", "stars_await", "stars_break"} =>
    \A j \in 1..Len(jobs) :
      \E li \in {jobs[j].lineIndex + 1} : \E h \in {HeaderOf(lines, jobs[j].lineIndex + 1)} :
        /\ li >= h + 2
        /\ ColumnOf(lines[h], sGitHubStars) = jobs[j].starsCol
        /\ RepoAt(lines[li], ColumnOf(lines[h], sGithub)) = Str(jobs[j].repo)

\* C12, when a run has ended without meeting the rate limit: in a table
\* with a Github column and a data row, the header has a GitHub Stars
\* column (where it was, if it had one); the rows that link to a repository
\* are those a lookup was made for; a row whose lookup gave a number has
\* that number in the stars cell; the stars cell of another row is as it
\* was, or blank in a column the run inserted; and the other cells of every
\* data row are as they were.
C12_CountsInStarsCells ==
  (script = "stars" /\ pc = "idle" /\ runs > 0 /\ ~hitRateLimit) =>
    \E a \in {LinesOf(input)} : \E b \in {LinesOf(readme)} :
      /\ Len(b) = Len(a)
      /\ Len(results) = Len(jobs)
      /\ \A h \in 1..Len(a) :
           (IsHeaderAt(a, h) /\ TableEnd(a, h) >= h + 2 /\ ColumnOf(a[h], sGithub) # -1) =>
             \E g \in {ColumnOf(a[h], sGithub)} :
             \E s0 \in {ColumnOf(a[h], sGitHubStars)} :
             \E s \in {ColumnOf(b[h], sGitHubStars)} :
               /\ s # -1
               /\ s0 # -1 => s = s0
               /\ s0 = -1 => s = g + 1
               /\ \A r \in (h + 2)..TableEnd(a, h) : \E j \in {JobOf(r - 1)} :
                    /\ (j # 0) = ~RepoAt(a[r], g).null
                    /\ OtherCellsKept(a[r], b[r], s, s0 = -1)
                    /\ IF j # 0 /\ ~results[j].nan
                       THEN RawCellAt(b[r], s) = Cell(String(results[j].m))
                       ELSE IF s0 = -1 THEN CellAt(b[r], s) = <<>>
                       ELSE RawCellAt(b[r], s) = RawCellAt(a[r], s)

UpdateOf(li) ==
  IF \E u \in 1..Len(updates) : updates[u].lineIdx = li
  THEN CHOOSE u \in 1..Len(updates) : updates[u].lineIdx = li
  ELSE 0

\* C13: after a run of fill-github-from-website the document has the lines
\* it had but for data rows of tables with a Website and a Github column
\* whose Github cell was empty, whose Website cell gave a URL that
\* normalizeUrlMaybe accepted, and for which the fetch succeeded and a link
\* was found in the page; such a row has [Link](<the link>) as its Github
\* cell and its other cells as they were.
C13_OnlyEmptyGithubCellsFilled ==
  (script = "web" /\ pc = "idle" /\ runs > 0) =>
    \E a \in {LinesOf(input)} : \E b \in {LinesOf(readme)} :
      /\ Len(b) = Len(a)
      /\ \A i \in 1..Len(a) : b[i] # a[i] =>
           /\ IsTableLine(a[i])
           /\ \E h \in {HeaderOf(a, i)} : \E u \in {UpdateOf(i - 1)} :
              \E w \in {ColumnOf(a[h], sWebsite)} : \E g \in {ColumnOf(a[h], sGithub)} :
                /\ i >= h + 2 /\ w # -1 /\ g # -1
                /\ CellAt(a[i], g) = <<>>
                /\ ~normalizeUrlMaybe(extractMarkdownUrl(AtOr(CellsOf(a[i]), w, <<>>))).null
                /\ u # 0 /\ u <= Len(links) /\ ~links[u].null
                /\ RawCellAt(b[i], g) =
                     Cell(<<"[", "L", "i", "n", "k", "]", "(">> \o links[u].s \o <<")">>)
                /\ OtherCellsKept(a[i], b[i], g, FALSE)

\* The number the stated algorithm gives for a cell text: the text is
\* trimmed, its commas are removed and it is lower-cased; what is left,
\* when it is a number followed by k, is the number times 1000, rounded;
\* else when it is a number, is that number; and else, like the empty text,
\* is unparseable.
StatedStars(text) ==
  LET t == toLowerCase(StripCommas(trim(text)))
      group == TrimRight(SubSeq(t, 1, Len(t) - 1))
  IN  IF trim(t) = <<>> THEN NoNumber
      ELSE IF /\ endsWith(t, "k") /\ Len(group) > 0 /\ IsDigit(group[Len(group)])
              /\ ~DecimalLiteral(group).nan
        THEN RoundTimes1000(DecimalLiteral(group))
      ELSE Number(t)

\* C14: parseStars returns, for every cell text, a number or null, and it
\* is what the stated algorithm gives: "1,234" is 1234, "2.5k" is 2500,
\* "3k" is 3000, "" and "abc" are unparseable, and a text that has nothing
\* left after the normalization is unparseable, not 0.
C14_ParseStarsAsStated ==
  (script = "parse" /\ runs = 1) =>
    /\ parsed.nan \/ parsed.m \in Int
    /\ cellText = <<"1", ",", "2", "3", "4">> => parsed = Num(1234, 0)
    /\ cellText = <<"2", ".", "5", "k">> => parsed = Num(2500, 0)
    /\ cellText = <<"3", "k">> => parsed = Num(3000, 0)
    /\ cellText \in {<<>>, <<"a", "b", "c">>} => parsed = NoNumber
    /\ NoNumber # Num(0, 0)
    /\ parsed = StatedStars(cellText)

\* C15, for the Link column of split-link-column: the header of a table
\* whose first cell named Link, in any letter case, is at index k has
\* Website at k and Github at k + 1 after the run, as the header of a table
\* that spells it Link has; a header without such a cell is as it was.
C15_ColumnsFoundIgnoringCase ==
  (script = "split" /\ runs = 1) =>
    \E a \in {LinesOf(input)} : \E b \in {LinesOf(readme)} :
      /\ Len(b) = Len(a)
      /\ \A h \in 1..Len(a) : IsHeaderAt(a, h) =>
           \E k \in {ColumnOf(a[h], sLink)} :
             IF k = -1 THEN b[h] = a[h]
             ELSE CellsOf(b[h]) = splice(SetAt(CellsOf(a[h]), k, Cell(sWebsite)),
                                         k + 1, Cell(sGithub))

\* C16, fill-github-stars: when a run that met no rate limit is over, every
\* job has been through the loop; the line of a job that ended without a
\* number is as it was after the structural edits, the line of a job that
\* ended with a number has it in its stars cell; and these lines are the
\* document if a cell or a column was written.
C16_StarsLoopGoesOn ==
  (script = "stars" /\ pc = "idle" /\ runs > 0 /\ ~hitRateLimit) =>
    \E before \in {StarsPrepare(input).lines} :
      /\ Len(results) = Len(jobs)
      /\ \A j \in 1..Len(jobs) : \E li \in {jobs[j].lineIndex + 1} :
           lines[li] = IF results[j].nan THEN before[li]
                       ELSE WriteStars(before, jobs[j], results[j].m)[li]
      /\ (rowsUpdated > 0 \/ tablesTouched > 0) => readme = join(lines, NL)

\* C16, fill-github-from-website: when a run is over, every update has been
\* through the loop; the line of an update that ended without a link is as
\* it was, the line of an update that ended with a link has it in its
\* Github cell; and these lines are the document if a cell was written.
C16_WebLoopGoesOn ==
  (script = "web" /\ runs > 0 /\ pc \notin {"web_loop", "web_fetch", "web_resume"}) =>
    \E before \in {LinesOf(input)} :
      /\ Len(links) = Len(updates)
      /\ \A u \in 1..Len(updates) : \E li \in {updates[u].lineIdx + 1} :
           lines[li] = IF links[u].null THEN before[li]
                       ELSE WriteLink(before, updates[u], links[u].s)[li]
      /\ applied > 0 => readme = join(lines, NL)

\* C16: in the loops of fill-github-stars and fill-github-from-website a
\* request that fails otherwise than on the rate limit, or a page without a
\* link, leaves the line of its row as it is and the loop goes on with the
\* next row; the cells written for the rows before it stay written and are
\* in the document that is saved.
C16_FailuresSkipTheRow == C16_StarsLoopGoesOn /\ C16_WebLoopGoesOn

\* The header new is the header old with the cell GitHub Stars put in at
\* the zero-based index idx.
StarsCellAt(old, new, idx) ==
  InsertedAt(CellsOf(old), CellsOf(new), idx) /\ CellsOf(new)[idx + 1] = Cell(sGitHubStars)

\* C17: the header of a table that add-github-stars-column gives the column
\* to has the new cell right after its Github cell when it has one; else
\* the new cell is put in after all the cells the header had: none of them
\* that is not empty is to the right of it, and a header that ended with
\* the closing delimiter still does.
C17_InsertionIndexPolicy ==
  (script = "add" /\ runs = 1) =>
    \E a \in {LinesOf(input)} : \E b \in {LinesOf(readme)} :
      /\ Len(b) = Len(a)
      /\ \A h \in 1..Len(a) : (IsHeaderAt(a, h) /\ ~HasStarsColumn(a[h])) =>
           \E g \in {ColumnOf(a[h], sGithub)} : \E s \in {ColumnOf(b[h], sGitHubStars)} :
             /\ s # -1
             /\ StarsCellAt(a[h], b[h], s)
             /\ g # -1 => s = g + 1
             /\ g = -1 =>
                  /\ \A c \in (s + 1)..(Len(CellsOf(b[h])) - 1) : CellAt(b[h], c) = <<>>
                  /\ endsWith(a[h], PIPE) => endsWith(b[h], PIPE)

====
